---------------------------- MODULE Spec2Model ----------------------------
(***************************************************************************)
(* Entity state machines of src/player_module.py: Player, Bullet, Wall and *)
(* Enemy.  The file holds two copies of the module text (lines 1-183 and   *)
(* 185-430); Python binds each class name to its last definition, so the   *)
(* second copy is the one an importer gets.  Player and Wall differ        *)
(* between the copies; player_def and wall_def say which class body an     *)
(* object was built from.  Bullet is identical in both, Enemy exists once. *)
(*                                                                         *)
(* Each entity is independent of the others (no entity calls another,      *)
(* except Enemy.shoot constructing a Bullet), so each has a specification  *)
(* of its own: SpecPlayer, SpecBullet, SpecWall, SpecEnemy.                *)
(***************************************************************************)
EXTENDS Integers, Sequences, FiniteSets, TLC

VARIABLES
    \* ---- Player
    player_def,       \* 1: class of lines 28-96 (has heal), 2: class of lines 212-278
    player_rect,      \* self.rect, [x, y, w, h]
    lives,            \* self.lives
    left_key,         \* self.left_key
    right_key,        \* self.right_key
    player_image,     \* the colour the template (once white) pixels of self.image have
    both_held,        \* history: the last update() found the left and the right key held
    \* ---- Bullet
    is_enemy,         \* self.is_enemy
    bullet_rect,      \* self.rect
    bullet_speed,     \* self.speed
    image_index,      \* self.image_index
    bullet_image,     \* self.image, <<list, index>>
    exploding,        \* self.exploding
    explosion_index,  \* self.explosion_index
    explosion_timer,  \* self.explosion_timer
    bullet_alive,     \* the sprite is in the caller's groups (pygame Sprite.alive())
    bullet_sizes,     \* sizes of the loaded textures, [img, expl], each <<w, h>>
    flying_ticks,     \* history: update() calls made while Flying
    exploding_ticks,  \* history: update() calls made since the bullet entered Exploding
    explosions,       \* history: number of Flying -> Exploding transitions
    \* ---- Wall
    wall_def,         \* 1: class of lines 149-183, 2: class of lines 331-365
    wall_rect,        \* self.rect
    wall_health,      \* self.health
    state_index,      \* self.state_index
    wall_image,       \* index of the texture of self.states loaded into self.image
    wall_alive,       \* the sprite is in the caller's groups
    \* ---- Enemy
    enemy_rect,       \* self.rect
    enemy_health,     \* self.health
    direction,        \* self.direction
    can_shoot,        \* self.can_shoot
    shooting_timer,   \* self.shooting_timer
    current_frame,    \* self.current_frame
    enemy_color,      \* colour of the non-transparent pixels of self.image
    enemy_alive,      \* the sprite is in the caller's groups
    shot,             \* value returned by the last shoot() call (None or a Bullet)
    bullets_returned, \* history: shoot() calls that returned a Bullet (counts up to MaxBulletsCounted)
    ticks_since_shot, \* history: update() calls since shoot() last returned a Bullet, or
                      \* since construction (counts up to MaxTicksSinceShot)
    enemy_start,      \* history: self.rect as the constructor left it
    enemy_ticks,      \* history: update() calls made (counts up to MaxEnemyTicks)
    last_move_flipped \* history: the last horizontal move turned the enemy round

playerVars == <<player_def, player_rect, lives, left_key, right_key, player_image,
                both_held>>
bulletVars == <<is_enemy, bullet_rect, bullet_speed, image_index, bullet_image,
                exploding, explosion_index, explosion_timer, bullet_alive,
                bullet_sizes, flying_ticks, exploding_ticks, explosions>>
wallVars   == <<wall_def, wall_rect, wall_health, state_index, wall_image, wall_alive>>
enemyVars  == <<enemy_rect, enemy_health, direction, can_shoot, shooting_timer,
                current_frame, enemy_color, enemy_alive, shot, bullets_returned,
                ticks_since_shot, enemy_start, enemy_ticks, last_move_flipped>>
\* the history variables only update() writes
enemyMoves == <<enemy_start, enemy_ticks, last_move_flipped>>
vars == <<playerVars, bulletVars, wallVars, enemyVars>>
\* what a method of one entity leaves alone: the other entities
notPlayer == <<bulletVars, wallVars, enemyVars>>
notBullet == <<playerVars, wallVars, enemyVars>>
notWall   == <<playerVars, bulletVars, enemyVars>>
notEnemy  == <<playerVars, bulletVars, wallVars>>

-----------------------------------------------------------------------------
(* Module constants and pygame.Rect arithmetic                             *)

SCREEN_WIDTH == 800
SCREEN_HEIGHT == 600

\* shoot() returns None or a Bullet: the empty tuple, or a one-element tuple
None == <<>>

Max(a, b) == IF a >= b THEN a ELSE b

\* pygame.Rect virtual attributes (integer rect, centre by floor division)
Rect(x, y, w, h) == [x |-> x, y |-> y, w |-> w, h |-> h]
RectLeft(r)    == r.x
RectRight(r)   == r.x + r.w
RectTop(r)     == r.y
RectBottom(r)  == r.y + r.h
RectCenterX(r) == r.x + (r.w \div 2)
RectCenterY(r) == r.y + (r.h \div 2)
\* surface.get_rect(center=(cx, cy)), and rect.center = (cx, cy) on a rect of that size
RectCentered(w, h, cx, cy) == Rect(cx - (w \div 2), cy - (h \div 2), w, h)

-----------------------------------------------------------------------------
(* Bounds of the model                                                     *)

MaxAmount == 2        \* take_damage(amount) is called with amount in -MaxAmount..MaxAmount
MaxLivesSeen == 4     \* take_damage is not called when it would raise lives above this
MaxOverkill == 2      \* take_damage() is not called on a Wall / Enemy whose health is <= -MaxOverkill

Keys == {"K_a", "K_d"}
Colors == {"white", "red", "blue"}

-----------------------------------------------------------------------------
(* Player                                                                  *)

Player_speed == 5

\* sizes of Textures/Player.png the model is run with
PlayerImageSizes == {<<50, 30>>, <<64, 64>>}
\* (screen_width, screen_height) arguments of the constructor; they place the
\* centre of the rect and need not agree with SCREEN_WIDTH
PlayerScreenArgs == {<<800, 600>>, <<0, 600>>, <<1700, 600>>, <<1533, 600>>}

\* change_color(image, (255,255,255), new_color) on an image whose template
\* pixels have colour tint: only white pixels are replaced
change_color(tint, new_color) == IF tint = "white" THEN new_color ELSE tint

Player_init(def, index, size, args) ==
    /\ player_def = def
    /\ left_key = "K_a"
    /\ right_key = "K_d"
    /\ lives = 3
    /\ player_image = change_color("white", IF index = 1 THEN "red" ELSE "blue")
    /\ player_rect = RectCentered(size[1], size[2], args[1] \div 2, args[2] - 50)
    /\ both_held = FALSE

\* mutant: the clamp without its elif branch (the right edge is not enforced)
Player_clamp_NoRightClamp(r) ==
    IF RectLeft(r) < 0 THEN [r EXCEPT !.x = 0] ELSE r

\* the clamp at the end of Player.update
Player_clamp(r) ==
    IF RectLeft(r) < 0 THEN [r EXCEPT !.x = 0]
    ELSE IF RectRight(r) > SCREEN_WIDTH THEN [r EXCEPT !.x = SCREEN_WIDTH - r.w]
    ELSE r

\* mutant: the rect is clamped after each key instead of once at the end
Player_update_ClampAfterEachKey(keys) ==
    LET r1 == IF keys[left_key]
              THEN Player_clamp([player_rect EXCEPT !.x = @ - Player_speed]) ELSE player_rect
        r2 == IF keys[right_key] THEN [r1 EXCEPT !.x = @ + Player_speed] ELSE r1
    IN  /\ player_rect' = Player_clamp(r2)
        /\ both_held' = (keys[left_key] /\ keys[right_key])
        /\ UNCHANGED <<player_def, lives, left_key, right_key, player_image, notPlayer>>

Player_update(keys) ==
    LET r1 == IF keys[left_key]
              THEN [player_rect EXCEPT !.x = @ - Player_speed] ELSE player_rect
        r2 == IF keys[right_key] THEN [r1 EXCEPT !.x = @ + Player_speed] ELSE r1
    IN  /\ player_rect' = Player_clamp(r2)
        /\ both_held' = (keys[left_key] /\ keys[right_key])
        /\ UNCHANGED <<player_def, lives, left_key, right_key, player_image, notPlayer>>

Player_set_color(new_color) ==
    /\ player_image' = change_color(player_image, new_color)
    /\ UNCHANGED <<player_def, player_rect, lives, left_key, right_key, both_held, notPlayer>>

Player_set_controls(l, r) ==
    /\ left_key' = l
    /\ right_key' = r
    /\ UNCHANGED <<player_def, player_rect, lives, player_image, both_held, notPlayer>>

\* lives = max(0, lives - amount)
Player_take_damage(amount) ==
    /\ Max(0, lives - amount) <= MaxLivesSeen
    /\ lives' = Max(0, lives - amount)
    /\ UNCHANGED <<player_def, player_rect, left_key, right_key, player_image, both_held,
                   notPlayer>>

\* lives = max(0, lives == 3): the comparison is a bool, True == 1, False == 0
Player_heal ==
    /\ player_def = 1
    /\ lives' = Max(0, IF lives = 3 THEN 1 ELSE 0)
    /\ UNCHANGED <<player_def, player_rect, left_key, right_key, player_image, both_held,
                   notPlayer>>

-----------------------------------------------------------------------------
(* Wall                                                                    *)

\* self.health = ... in __init__, and in reset(), of each class body
Wall_initial_health(def) == IF def = 1 THEN 15 ELSE 25
Wall_reset_health(def)   == IF def = 1 THEN 15 ELSE 10

\* (x, y) arguments of the constructor, and the size of Textures/WallState1.png
WallStarts == {<<200, 450>>, <<400, 450>>}
WallImageSizes == {<<60, 40>>}

Wall_init(def, x, y, size) ==
    /\ wall_def = def
    /\ wall_rect = RectCentered(size[1], size[2], x, y)
    /\ wall_health = Wall_initial_health(def)
    /\ state_index = 0
    /\ wall_image = 0
    /\ wall_alive = TRUE

\* mutant: the threshold test without its state_index < 2 half
Wall_next_state_due_NoCap(h, i) == h <= 6

\* the test of line 353, on the decremented health
Wall_next_state_due(h, i) == h <= 6 /\ i < 2

Wall_take_damage ==
    LET h == wall_health - 1
        advance == Wall_next_state_due(h, state_index)
    IN  /\ wall_health > -MaxOverkill
        /\ wall_health' = h
        /\ state_index' = IF advance THEN state_index + 1 ELSE state_index
        /\ wall_image' = IF advance THEN state_index + 1 ELSE wall_image
        /\ wall_alive' = IF h <= 0 THEN FALSE ELSE wall_alive
        /\ UNCHANGED <<wall_def, wall_rect, notWall>>

\* mutant: reset() restores health and the image but not state_index
Wall_reset_KeepsStateIndex ==
    /\ wall_health' = Wall_reset_health(wall_def)
    /\ wall_image' = 0
    /\ UNCHANGED <<wall_def, wall_rect, wall_alive, state_index, notWall>>

Wall_reset ==
    /\ wall_health' = Wall_reset_health(wall_def)
    /\ state_index' = 0
    /\ wall_image' = 0
    /\ UNCHANGED <<wall_def, wall_rect, wall_alive, notWall>>

-----------------------------------------------------------------------------
(* Bullet                                                                  *)

Bullet_images_len == 2
Bullet_explosion_images_len == 3
Bullet_explosion_frame_ticks == 5

\* (x, y) arguments of the constructor
BulletStarts == {<<400, 550>>, <<400, 8>>, <<123, 300>>, <<400, -40>>, <<7, 640>>}
\* sizes of the bullet textures and of the explosion textures the model is run with
BulletImageSizes == {[img |-> <<4, 12>>, expl |-> <<16, 16>>],
                     [img |-> <<9, 17>>, expl |-> <<8, 8>>]}

Bullet_init(x, y, enemy, sizes) ==
    /\ is_enemy = enemy
    /\ bullet_sizes = sizes
    /\ image_index = 0
    /\ bullet_image = <<"images", 0>>
    /\ bullet_rect = RectCentered(sizes.img[1], sizes.img[2], x, y)
    /\ bullet_speed = IF enemy THEN 5 ELSE -5
    /\ exploding = FALSE
    /\ explosion_index = 0
    /\ explosion_timer = 0
    /\ bullet_alive = TRUE
    /\ flying_ticks = 0
    /\ exploding_ticks = 0
    /\ explosions = 0

\* mutant: the flight ends as soon as part of the rect is past an edge
Bullet_left_screen_PartlyOff(r) == RectTop(r) < 0 \/ RectBottom(r) > SCREEN_HEIGHT

\* the test of Bullet.update that ends the flight
Bullet_left_screen(r) == RectBottom(r) < 0 \/ RectTop(r) > SCREEN_HEIGHT

\* mutant: get_rect() without center=: the explosion frame's rect at the origin
Bullet_trigger_explosion_rect_AtOrigin(r) ==
    Rect(0, 0, bullet_sizes.expl[1], bullet_sizes.expl[2])

\* the rect trigger_explosion() assigns: the first explosion frame's rect, same centre
Bullet_trigger_explosion_rect(r) ==
    RectCentered(bullet_sizes.expl[1], bullet_sizes.expl[2], RectCenterX(r), RectCenterY(r))

\* mutant: one frame too many is waited for before kill()
Bullet_has_frame_OffByOne(i) == i <= Bullet_explosion_images_len

\* the test of line 314: explosion frame i exists
Bullet_has_frame(i) == i < Bullet_explosion_images_len

\* mutant: the end of the explosion clears exploding instead of removing the bullet
Bullet_update_exploding_BackToFlying ==
    LET t == explosion_timer + 1
        advance == t % Bullet_explosion_frame_ticks = 0
        i == IF advance THEN explosion_index + 1 ELSE explosion_index
    IN  /\ exploding
        /\ explosion_timer' = t
        /\ explosion_index' = i
        /\ bullet_image' = IF advance /\ Bullet_has_frame(i)
                           THEN <<"explosion_images", i>> ELSE bullet_image
        /\ exploding' = ~(advance /\ ~Bullet_has_frame(i))
        /\ exploding_ticks' = exploding_ticks + 1
        /\ UNCHANGED <<is_enemy, bullet_rect, bullet_speed, image_index, bullet_alive,
                       bullet_sizes, flying_ticks, explosions, notBullet>>

\* the exploding branch of Bullet.update
Bullet_update_exploding ==
    LET t == explosion_timer + 1
        advance == t % Bullet_explosion_frame_ticks = 0
        i == IF advance THEN explosion_index + 1 ELSE explosion_index
    IN  /\ exploding
        /\ explosion_timer' = t
        /\ explosion_index' = i
        /\ bullet_image' = IF advance /\ Bullet_has_frame(i)
                           THEN <<"explosion_images", i>> ELSE bullet_image
        /\ bullet_alive' = IF advance /\ ~Bullet_has_frame(i)
                           THEN FALSE ELSE bullet_alive
        /\ exploding_ticks' = exploding_ticks + 1
        /\ UNCHANGED <<is_enemy, bullet_rect, bullet_speed, image_index, exploding,
                       bullet_sizes, flying_ticks, explosions, notBullet>>

\* the flying branch of Bullet.update, trigger_explosion() included
Bullet_update_flying ==
    LET moved == [bullet_rect EXCEPT !.y = @ + bullet_speed]
        i == (image_index + 1) % Bullet_images_len
        out == Bullet_left_screen(moved)
    IN  /\ ~exploding
        /\ image_index' = i
        /\ exploding' = out
        /\ bullet_image' = IF out THEN <<"explosion_images", 0>> ELSE <<"images", i>>
        /\ bullet_rect' = IF out THEN Bullet_trigger_explosion_rect(moved) ELSE moved
        /\ flying_ticks' = flying_ticks + 1
        /\ explosions' = IF out THEN explosions + 1 ELSE explosions
        /\ UNCHANGED <<is_enemy, bullet_speed, explosion_index, explosion_timer,
                       bullet_alive, bullet_sizes, exploding_ticks, notBullet>>

MaxExplosionTimer == 21   \* update() is not called on a bullet whose explosion_timer is this

Bullet_update ==
    /\ explosion_timer < MaxExplosionTimer
    /\ \/ Bullet_update_exploding
       \/ Bullet_update_flying

-----------------------------------------------------------------------------
(* Enemy                                                                   *)

Enemy_speed == 10
Enemy_shooting_cooldown == 1
Enemy_move_delay == 10
Enemy_step_down == 20

MaxEnemyTop == 60         \* update() is not called on an enemy whose rect.top is above this
MaxTicksSinceShot == 3    \* ticks_since_shot stops counting here
MaxBulletsCounted == 2    \* bullets_returned stops counting here
MaxEnemyTicks == 25       \* enemy_ticks stops counting here

\* (x, y) arguments of the constructor
EnemyStarts == {<<25, 60>>, <<700, 60>>, <<735, 60>>, <<10, 60>>}
\* size of the enemy texture (50 x 40 is the placeholder of lines 380-381)
EnemyImageSizes == {<<50, 40>>}
EnemyColors == {"green", "magenta"}

Enemy_init(x, y, size) ==
    /\ enemy_rect = RectCentered(size[1], size[2], x, y)
    /\ enemy_health = 1
    /\ direction = 1
    /\ can_shoot = TRUE
    /\ shooting_timer = 10
    /\ current_frame = 0
    /\ enemy_color = "texture"
    /\ enemy_alive = TRUE
    /\ shot = None
    /\ bullets_returned = 0
    /\ ticks_since_shot = 0
    /\ enemy_start = RectCentered(size[1], size[2], x, y)
    /\ enemy_ticks = 0
    /\ last_move_flipped = FALSE

\* mutant: the enemy turns only once it is past an edge, not when it touches it
Enemy_at_edge_Strict(r) == RectRight(r) > SCREEN_WIDTH \/ RectLeft(r) < 0

\* the test of Enemy.update that turns the enemy round
Enemy_at_edge(r) == RectRight(r) >= SCREEN_WIDTH \/ RectLeft(r) <= 0

\* mutant: can_shoot is set in the tick that brings the timer to zero
Enemy_cooldown_SameTick(timer, can) ==
    IF timer > 0 THEN <<timer - 1, can \/ timer - 1 = 0>> ELSE <<timer, TRUE>>

\* the cooldown half of Enemy.update: <<shooting_timer, can_shoot>> after the tick
Enemy_cooldown(timer, can) == IF timer > 0 THEN <<timer - 1, can>> ELSE <<timer, TRUE>>

\* mutant: the move is made one tick late (> for >=)
Enemy_move_due_Late(f) == f > Enemy_move_delay

\* mutant: the move is made one tick early
Enemy_move_due_Early(f) == f >= Enemy_move_delay - 1

\* the test of line 396, on the incremented frame counter
Enemy_move_due(f) == f >= Enemy_move_delay

\* mutant: the turn assigns the direction instead of negating it (= 1 for *= -1)
Enemy_turn_AlwaysRight(d) == 1

\* self.direction *= -1
Enemy_turn(d) == d * (-1)

Enemy_update ==
    LET f == current_frame + 1
        move == Enemy_move_due(f)
        moved == [enemy_rect EXCEPT !.x = @ + Enemy_speed * direction]
        flip == move /\ Enemy_at_edge(moved)
        cd == Enemy_cooldown(shooting_timer, can_shoot)
    IN  /\ RectTop(enemy_rect) <= MaxEnemyTop
        /\ enemy_rect' = IF flip THEN [moved EXCEPT !.y = @ + Enemy_step_down]
                          ELSE IF move THEN moved ELSE enemy_rect
        /\ direction' = IF flip THEN Enemy_turn(direction) ELSE direction
        /\ current_frame' = IF move THEN 0 ELSE f
        /\ shooting_timer' = cd[1]
        /\ can_shoot' = cd[2]
        /\ shot' = None
        /\ ticks_since_shot' = IF ticks_since_shot >= MaxTicksSinceShot
                                THEN ticks_since_shot ELSE ticks_since_shot + 1
        /\ enemy_ticks' = IF enemy_ticks >= MaxEnemyTicks THEN enemy_ticks ELSE enemy_ticks + 1
        /\ last_move_flipped' = IF move THEN flip ELSE last_move_flipped
        /\ UNCHANGED <<enemy_health, enemy_color, enemy_alive, bullets_returned,
                       enemy_start, notEnemy>>

\* the Bullet shoot() returns, as the constructor arguments it is built from
Enemy_new_bullet(r) == <<[x |-> RectCenterX(r), y |-> RectBottom(r), is_enemy |-> TRUE]>>

\* mutant: shoot() forgets to clear can_shoot
Enemy_shoot_KeepsCanShoot ==
    /\ IF can_shoot
       THEN /\ can_shoot' = can_shoot
            /\ shooting_timer' = Enemy_shooting_cooldown
            /\ shot' = Enemy_new_bullet(enemy_rect)
            /\ ticks_since_shot' = 0
            /\ bullets_returned' = IF bullets_returned >= MaxBulletsCounted
                                    THEN bullets_returned ELSE bullets_returned + 1
       ELSE /\ shot' = None
            /\ UNCHANGED <<can_shoot, shooting_timer, ticks_since_shot, bullets_returned>>
    /\ UNCHANGED <<enemy_rect, enemy_health, direction, current_frame, enemy_color,
                   enemy_alive, enemyMoves, notEnemy>>

Enemy_shoot ==
    /\ IF can_shoot
       THEN /\ can_shoot' = FALSE
            /\ shooting_timer' = Enemy_shooting_cooldown
            /\ shot' = Enemy_new_bullet(enemy_rect)
            /\ ticks_since_shot' = 0
            /\ bullets_returned' = IF bullets_returned >= MaxBulletsCounted
                                    THEN bullets_returned ELSE bullets_returned + 1
       ELSE /\ shot' = None
            /\ UNCHANGED <<can_shoot, shooting_timer, ticks_since_shot, bullets_returned>>
    /\ UNCHANGED <<enemy_rect, enemy_health, direction, current_frame, enemy_color,
                   enemy_alive, enemyMoves, notEnemy>>

Enemy_take_damage ==
    /\ enemy_health > -MaxOverkill
    /\ enemy_health' = enemy_health - 1
    /\ enemy_alive' = IF enemy_health - 1 <= 0 THEN FALSE ELSE enemy_alive
    /\ shot' = None
    /\ UNCHANGED <<enemy_rect, direction, can_shoot, shooting_timer, current_frame,
                   enemy_color, bullets_returned, ticks_since_shot, enemyMoves, notEnemy>>

\* every pixel that is not the colour key (255, 0, 255) is set to color
Enemy_set_color(color) ==
    /\ enemy_color' = IF enemy_color = "magenta" THEN enemy_color ELSE color
    /\ shot' = None
    /\ UNCHANGED <<enemy_rect, enemy_health, direction, can_shoot, shooting_timer,
                   current_frame, enemy_alive, bullets_returned, ticks_since_shot,
                   enemyMoves, notEnemy>>

-----------------------------------------------------------------------------
(* Specifications: one entity acts, the others stay as constructed         *)

PlayerDefault == Player_init(2, 1, <<50, 30>>, <<SCREEN_WIDTH, SCREEN_HEIGHT>>)
BulletDefault == Bullet_init(400, 550, FALSE, [img |-> <<4, 12>>, expl |-> <<16, 16>>])
WallDefault   == Wall_init(2, 200, 450, <<60, 40>>)
EnemyDefault  == Enemy_init(25, 60, <<50, 40>>)

InitPlayer ==
    /\ \E def \in {1, 2}, index \in {1, 2}, size \in PlayerImageSizes,
          args \in PlayerScreenArgs : Player_init(def, index, size, args)
    /\ BulletDefault /\ WallDefault /\ EnemyDefault

NextPlayer ==
    \/ \E keys \in [Keys -> BOOLEAN] : Player_update(keys)
    \/ \E c \in Colors : Player_set_color(c)
    \/ \E l \in Keys, r \in Keys : Player_set_controls(l, r)
    \/ \E amount \in -MaxAmount..MaxAmount : Player_take_damage(amount)
    \/ Player_heal

SpecPlayer == InitPlayer /\ [][NextPlayer]_vars

InitBullet ==
    /\ \E s \in BulletStarts, enemy \in BOOLEAN, sizes \in BulletImageSizes :
          Bullet_init(s[1], s[2], enemy, sizes)
    /\ PlayerDefault /\ WallDefault /\ EnemyDefault

NextBullet == Bullet_update

SpecBullet == InitBullet /\ [][NextBullet]_vars

\* the game loop calls update() on the bullet every frame
SpecBulletFair == SpecBullet /\ WF_vars(Bullet_update)

InitWall ==
    /\ \E def \in {1, 2}, s \in WallStarts, size \in WallImageSizes :
          Wall_init(def, s[1], s[2], size)
    /\ PlayerDefault /\ BulletDefault /\ EnemyDefault

NextWall ==
    \/ Wall_take_damage
    \/ Wall_reset

SpecWall == InitWall /\ [][NextWall]_vars

InitEnemy ==
    /\ \E s \in EnemyStarts, size \in EnemyImageSizes : Enemy_init(s[1], s[2], size)
    /\ PlayerDefault /\ BulletDefault /\ WallDefault

NextEnemy ==
    \/ Enemy_update
    \/ Enemy_shoot
    \/ Enemy_take_damage
    \/ \E c \in EnemyColors : Enemy_set_color(c)

SpecEnemy == InitEnemy /\ [][NextEnemy]_vars

-----------------------------------------------------------------------------
(* Claims                                                                  *)

\* C1: over every sequence of Player operations lives stays in 0..3, and no
\* step increases lives unless it is a heal that sets lives to the full 3.
C1_LivesInRangeAndNonIncreasing ==
    /\ [](lives \in 0..3)
    /\ [][lives' > lives => (Player_heal /\ lives' = 3)]_vars

\* C2: after every Player.update(keys) call the rect lies horizontally within
\* the screen: rect.left >= 0 and rect.right <= SCREEN_WIDTH.
C2_UpdateKeepsRectOnScreen ==
    [][(\E keys \in [Keys -> BOOLEAN] : Player_update(keys))
        => (RectLeft(player_rect') >= 0 /\ RectRight(player_rect') <= 800)]_vars

\* a player built right of the screen has been clamped to the right edge by update
C2_Witness ==
    /\ RectRight(player_rect) = 800
    /\ RectLeft(player_rect) >= 0

C4_RemovedOnFifteenthExplodingTick == bullet_alive <=> (exploding_ticks < 15)

\* the 15th exploding tick has just removed the bullet
C4_Witness == exploding /\ exploding_ticks = 15 /\ ~bullet_alive

\* C5: each Wall.take_damage() lowers health by exactly 1, health is never
\* below 0, and the wall is removed in exactly the call in which health goes
\* from positive to <= 0.
C5_HealthDecrementsNeverNegativeKillAtZero ==
    /\ [](wall_health >= 0)
    /\ [][Wall_take_damage
           => /\ wall_health' = wall_health - 1
              /\ (wall_alive /\ ~wall_alive') <=> (wall_health > 0 /\ wall_health' <= 0)]_vars

\* C6: Enemy.direction is negated exactly in the ticks that make a horizontal
\* move whose resulting rect has right >= SCREEN_WIDTH or left <= 0, y grows
\* by 20 in exactly those ticks, and otherwise direction and y are unchanged.
C6_FlipExactlyAtEdgeWithStepDown ==
    [][LET moved == enemy_rect'.x # enemy_rect.x
           flip  == moved /\ (RectRight(enemy_rect') >= 800 \/ RectLeft(enemy_rect') <= 0)
       IN  /\ flip => (direction' = -direction /\ enemy_rect'.y = enemy_rect.y + 20)
           /\ ~flip => (direction' = direction /\ enemy_rect'.y = enemy_rect.y)]_vars

\* the enemy has turned round at the right edge and again at the left edge
C6_Witness == direction = 1 /\ RectLeft(enemy_rect) <= 0 /\ enemy_rect.y = 80

\* C7: between two shoot() calls that return a Bullet at least
\* shooting_cooldown update() ticks elapse, and a shoot() call made while
\* can_shoot is false returns nothing and changes nothing of the enemy.
C7_OneBulletPerCooldownWindow ==
    /\ [][(shot' # None /\ bullets_returned > 0)
           => ticks_since_shot >= Enemy_shooting_cooldown]_vars
    /\ [][(Enemy_shoot /\ ~can_shoot)
           => /\ shot' = None
              /\ UNCHANGED <<enemy_rect, enemy_health, direction, can_shoot,
                             shooting_timer, current_frame, enemy_color, enemy_alive>>]_vars

\* shoot() has just returned its second Bullet
C7_Witness == shot # None /\ bullets_returned = 2 /\ ~can_shoot

\* C8: Wall.reset() restores health to the constant the constructor assigns
\* and state_index to 0.
C8_ResetRestoresConstructorHealth ==
    [][Wall_reset => (wall_health' = Wall_initial_health(wall_def) /\ state_index' = 0)]_vars

\* C9 as stated: a Flying Bullet starts exploding in exactly the update()
\* ticks after whose move rect.top < 0 or rect.bottom > SCREEN_HEIGHT.
C9_Original_ExplodesWhenPartlyOffScreen ==
    [][(~exploding /\ Bullet_update)
        => (exploding' <=> (\/ bullet_rect.y + bullet_speed < 0
                            \/ bullet_rect.y + bullet_speed + bullet_rect.h > 600))]_vars

\* C9 amended: a Flying Bullet starts exploding in exactly the update() ticks
\* after whose move rect.bottom < 0 or rect.top > SCREEN_HEIGHT, that is when
\* the whole rect is past the top or the bottom edge.
C9_ExplodesWhenWhollyOffScreen ==
    [][(~exploding /\ Bullet_update)
        => (exploding' <=> (\/ bullet_rect.y + bullet_speed + bullet_rect.h < 0
                            \/ bullet_rect.y + bullet_speed > 600))]_vars

\* the bullet flew for several ticks and the last one took it off the screen
C9_Witness == exploding /\ exploding_ticks = 0 /\ flying_ticks > 1

\* C10 as stated: update() decrements a positive shooting_timer by 1,
\* can_shoot is true at the end of the tick in which the timer reaches zero,
\* and shooting_cooldown ticks after a Bullet was returned can_shoot is true.
C10_Original_ReadyWhenTimerReachesZero ==
    /\ [][(Enemy_update /\ shooting_timer > 0)
           => /\ shooting_timer' = shooting_timer - 1
              /\ shooting_timer' = 0 => can_shoot']_vars
    /\ []((bullets_returned > 0 /\ ticks_since_shot = Enemy_shooting_cooldown) => can_shoot)

\* C10 amended: update() decrements a positive shooting_timer by 1 and leaves
\* can_shoot alone in that tick; a tick that starts with the timer at zero
\* sets can_shoot; so after a shoot() that returned a Bullet can_shoot is
\* true again after exactly shooting_cooldown + 1 update() ticks.
C10_ReadyOneTickAfterTimerReachesZero ==
    /\ [][Enemy_update
           => /\ shooting_timer > 0
                   => (shooting_timer' = shooting_timer - 1 /\ can_shoot' = can_shoot)
              /\ shooting_timer = 0 => (shooting_timer' = 0 /\ can_shoot')]_vars
    /\ [](bullets_returned > 0
           => (can_shoot <=> ticks_since_shot >= Enemy_shooting_cooldown + 1))

\* the cooldown of a returned Bullet has run out: two ticks later can_shoot is true
C10_Witness ==
    bullets_returned > 0 /\ ticks_since_shot = Enemy_shooting_cooldown + 1 /\ can_shoot

\* C11: an Enemy built with rect.x = 0 (direction 1, speed 10, move_delay 10,
\* screen 800 wide) has x = 10, direction 1 and its first y after 10 update()
\* ticks; until its first turn it only moves right, and it turns in the tick
\* whose move makes rect.right >= 800: direction becomes -1 and y grows by 20.
C11_ScenarioFromLeftEdge ==
    /\ []((enemy_start.x = 0 /\ enemy_ticks = 10)
           => (enemy_rect.x = 10 /\ direction = 1 /\ enemy_rect.y = enemy_start.y))
    /\ []((enemy_start.x = 0 /\ enemy_rect.y = enemy_start.y) => direction = 1)
    /\ [][(enemy_start.x = 0 /\ enemy_rect.y = enemy_start.y)
           => IF enemy_rect'.x # enemy_rect.x /\ RectRight(enemy_rect') >= 800
              THEN direction' = -1 /\ enemy_rect'.y = enemy_rect.y + 20
              ELSE /\ direction' = 1
                   /\ enemy_rect'.y = enemy_rect.y
                   /\ enemy_rect'.x \in {enemy_rect.x, enemy_rect.x + 10}]_vars

\* the enemy built at x = 0 has just turned round at the right edge
C11_Witness ==
    /\ enemy_start.x = 0
    /\ direction = -1
    /\ RectRight(enemy_rect) >= 800
    /\ enemy_rect.y = enemy_start.y + 20

\* C16: update() changes x only on every 10th tick, by speed * direction with
\* the direction held before the tick, and resets current_frame to 0 in that
\* tick; on the other ticks x, y and direction are unchanged; current_frame
\* is in 0..9 between ticks.
C16_MoveEveryTenthTick ==
    /\ [](current_frame \in 0..9)
    /\ [](enemy_ticks < MaxEnemyTicks => current_frame = enemy_ticks % 10)
    /\ [][Enemy_update
           => IF current_frame = 9
              THEN /\ enemy_rect'.x = enemy_rect.x + 10 * direction
                   /\ current_frame' = 0
              ELSE /\ enemy_rect' = enemy_rect
                   /\ direction' = direction
                   /\ current_frame' = current_frame + 1]_vars

\* twenty ticks have made two moves to the right
C16_Witness ==
    enemy_ticks = 20 /\ current_frame = 0 /\ enemy_rect.x = enemy_start.x + 20

\* C18: Enemy.health is never negative, take_damage() lowers it by 1, and the
\* enemy is removed in the call that brings health to <= 0.
C18_EnemyHealthNeverNegative ==
    /\ [](enemy_health >= 0)
    /\ [][Enemy_take_damage
           => /\ enemy_health' = enemy_health - 1
              /\ (enemy_alive /\ ~enemy_alive') <=> (enemy_health > 0 /\ enemy_health' <= 0)]_vars

\* the constructor left the rect strictly inside the screen, with room for two steps
EnemyStartsInside ==
    /\ RectLeft(enemy_start) > 0
    /\ RectRight(enemy_start) < 800
    /\ enemy_start.w + 2 * 10 < 800

\* C20: an Enemy whose rect starts strictly inside the screen never turns
\* round on two consecutive moves, and its rect never reaches a full step
\* past an edge: left > -10 and right < SCREEN_WIDTH + 10.
C20_NoDoubleFlipNoFullStepOut ==
    /\ [](EnemyStartsInside
           => (RectLeft(enemy_rect) > -10 /\ RectRight(enemy_rect) < 800 + 10))
    /\ [][(EnemyStartsInside /\ last_move_flipped /\ enemy_rect'.x # enemy_rect.x)
           => direction' = direction]_vars

\* an enemy built inside the screen has turned at the right edge and, a whole
\* crossing later, at the left edge
C20_Witness ==
    /\ EnemyStartsInside
    /\ last_move_flipped
    /\ direction = 1
    /\ RectLeft(enemy_rect) <= 0

\* (not a claim) C20 without its precondition, for comparison
C20_WithoutPrecondition ==
    [][(last_move_flipped /\ enemy_rect'.x # enemy_rect.x) => direction' = direction]_vars

\* C12: every Bullet on which update() keeps being called is eventually
\* removed, and a removed bullet has flown at least one tick and is exploding.
C12_EveryBulletEventuallyRemoved ==
    /\ <>(~bullet_alive)
    /\ [](~bullet_alive => (exploding /\ flying_ticks >= 1 /\ explosions = 1))

\* a bullet has crossed the whole screen, exploded and been removed
C12_Witness == ~bullet_alive /\ flying_ticks > 100

\* C14 as stated: in every reachable Bullet state image_index is in 0..1 and
\* explosion_index is in 0..2.
C14_Original_IndicesInBounds ==
    image_index \in 0..1 /\ explosion_index \in 0..2

\* C14 amended: image_index is in 0..1; explosion_index is in 0..2 until the
\* bullet is removed and is 3 or more from the removing update() on; the
\* frame displayed is always a frame of its list.
C14_IndicesInBoundsWhileAlive ==
    /\ image_index \in 0..1
    /\ bullet_alive => explosion_index \in 0..2
    /\ ~bullet_alive => explosion_index >= 3
    /\ bullet_image[1] = "images" => bullet_image[2] \in 0..1
    /\ bullet_image[1] = "explosion_images" => bullet_image[2] \in 0..2

\* the update() that removed the bullet left explosion_index at 3
C14_Witness == ~bullet_alive /\ explosion_index = 3 /\ explosion_timer = 15

\* C17 as stated: owner and speed never change, every Flying update() changes
\* rect.y by +5 (enemy) or -5 (player) and leaves rect.x alone, and an
\* Exploding update() does not move the rect.
C17_Original_TopLeftMovesByFive ==
    /\ [][is_enemy' = is_enemy /\ bullet_speed' = bullet_speed]_vars
    /\ [][(Bullet_update /\ ~exploding)
           => /\ bullet_rect'.y = bullet_rect.y + (IF is_enemy THEN 5 ELSE -5)
              /\ bullet_rect'.x = bullet_rect.x]_vars
    /\ [][exploding => bullet_rect' = bullet_rect]_vars

\* C17 amended: owner and speed never change; every Flying update() moves the
\* centre of the rect by +5 (enemy) or -5 (player) in y and not in x, and
\* moves rect.y and rect.x likewise unless the tick enters Exploding (the rect
\* is then the explosion frame's, about the same centre); an Exploding
\* update() does not move the rect.
C17_CentreMovesByFive ==
    /\ [](bullet_speed = IF is_enemy THEN 5 ELSE -5)
    /\ [][is_enemy' = is_enemy /\ bullet_speed' = bullet_speed]_vars
    /\ [][(Bullet_update /\ ~exploding)
           => /\ RectCenterY(bullet_rect') = RectCenterY(bullet_rect) + (IF is_enemy THEN 5 ELSE -5)
              /\ RectCenterX(bullet_rect') = RectCenterX(bullet_rect)
              /\ ~exploding' => /\ bullet_rect'.y = bullet_rect.y + (IF is_enemy THEN 5 ELSE -5)
                                /\ bullet_rect'.x = bullet_rect.x
                                /\ bullet_rect'.w = bullet_rect.w
                                /\ bullet_rect'.h = bullet_rect.h]_vars
    /\ [][exploding => bullet_rect' = bullet_rect]_vars

\* the bullet flew, took the explosion frame's rect and went on being updated
C17_Witness ==
    /\ exploding
    /\ flying_ticks > 1
    /\ exploding_ticks > 0
    /\ bullet_rect.w = bullet_sizes.expl[1]
    /\ bullet_rect.h = bullet_sizes.expl[2]

\* C13: an update() that finds both the left and the right key held, on a
\* player whose rect is within the screen (edges included), leaves the rect
\* where it was.
C13_BothKeysCancel ==
    [][(/\ \E keys \in [Keys -> BOOLEAN] :
              keys[left_key] /\ keys[right_key] /\ Player_update(keys)
        /\ RectLeft(player_rect) >= 0
        /\ RectRight(player_rect) <= 800)
       => player_rect' = player_rect]_vars

\* the last update() found both keys held with the player at the left edge
C13_Witness == both_held /\ RectLeft(player_rect) = 0

\* C15: state_index is always in 0..2; take_damage() raises it by exactly 1
\* when the decremented health is <= 6 and state_index < 2 and leaves it
\* alone otherwise; only reset() lowers it.
C15_StateIndexAdvancesOneStep ==
    /\ [](state_index \in 0..2)
    /\ [][Wall_take_damage
           => state_index' = IF wall_health - 1 <= 6 /\ state_index < 2
                             THEN state_index + 1 ELSE state_index]_vars
    /\ [][state_index' < state_index => Wall_reset]_vars

\* the wall went on being hit after it reached its last state
C15_Witness == state_index = 2 /\ wall_health = 3 /\ wall_alive

\* C19: in every reachable Wall state state_index (and the texture shown) is
\* 0 when health >= 7, 1 when health = 6 and 2 when health <= 5.
C19_StateIndexFunctionOfHealth ==
    /\ state_index = (IF wall_health >= 7 THEN 0 ELSE IF wall_health = 6 THEN 1 ELSE 2)
    /\ wall_image = state_index

\* the one health value at which the middle texture is shown
C19_Witness == wall_health = 6 /\ state_index = 1 /\ wall_image = 1

=============================================================================
